---- MODULE Spec2Model ----
(***************************************************************************)
(* The chat routes of the backend: the auth middleware, the five chat      *)
(* handlers behind it, the session collection they read and write, the     *)
(* event relay and the generation gateway.  One action is one stretch of   *)
(* handler code between two awaits: the event loop runs such a stretch to  *)
(* its end before any other request's code runs.                           *)
(***************************************************************************)
EXTENDS Integers, Sequences, FiniteSets, TLC

VARIABLES
    store,      \* the ChatSession collection: sessionId -> document
    relayed,    \* the events the event relay has accepted
    req,        \* the requests in flight, one per connection slot
    started,    \* how many requests have arrived so far
    okLog,      \* per session, <<message, reply>> of each 200 of sendMessage, in order
    now         \* the time new Date() reads

vars == <<store, relayed, req, started, okLog, now>>

\* ------------------------------------------------------------------ bounds

MaxRequests == 3

Slots == {1, 2}
SessionIds == {"s1", "s2"}
Msgs == {"m1", "m2"}
ErrMsgs == {"ECONNREFUSED", "ETIMEDOUT"}

\* ------------------------------------------------------- identifiers, JWT

\* new Types.ObjectId(hex): an object wrapping the 24 hex characters.
ToObjectId(s) == [oid |-> s]

\* ObjectId.prototype.toString(): the hex string again.
OidToString(o) == o.oid

\* The bearer tokens a client may present and what jwt.verify finds in each.
TokenNames == {"tok_u1", "tok_u2", "tok_u1_expired", "tok_u1_badsig", "garbage"}

JwtParts(t) ==
    CASE t = "tok_u1"         -> [wellFormed |-> TRUE, sig |-> "good", exp |-> "live", userId |-> "u1"]
      [] t = "tok_u2"         -> [wellFormed |-> TRUE, sig |-> "good", exp |-> "live", userId |-> "u2"]
      [] t = "tok_u1_expired" -> [wellFormed |-> TRUE, sig |-> "good", exp |-> "past", userId |-> "u1"]
      [] t = "tok_u1_badsig"  -> [wellFormed |-> TRUE, sig |-> "bad", exp |-> "live", userId |-> "u1"]
      [] OTHER                -> [wellFormed |-> FALSE, sig |-> "bad", exp |-> "past", userId |-> ""]

\* The Authorization header: absent, or a string held as its parts.
Headers ==
    {[present |-> FALSE, parts |-> <<>>], [present |-> TRUE, parts |-> <<"Bearer ">>]}
        \cup {[present |-> TRUE, parts |-> <<"Bearer ", t>>] : t \in TokenNames}

\* String.prototype.replace(part, ""): the first occurrence of part removed.
RECURSIVE ReplaceFirst(_, _)
ReplaceFirst(s, part) ==
    IF s = <<>> THEN <<>>
    ELSE IF Head(s) = part THEN Tail(s)
    ELSE <<Head(s)>> \o ReplaceFirst(Tail(s), part)

\* authHeader?.replace("Bearer ", ""): undefined for an absent header.
ExtractToken(h) ==
    IF h.present THEN [defined |-> TRUE, parts |-> ReplaceFirst(h.parts, "Bearer ")]
    ELSE [defined |-> FALSE, parts |-> <<>>]

\* !token: undefined or the empty string.
TokenFalsy(tok) == ~tok.defined \/ tok.parts = <<>>

\* jwt.verify(token, JWT_SECRET): "ok", or the message of the error it throws.
JwtVerify(tok) ==
    IF Len(tok.parts) # 1 \/ ~JwtParts(tok.parts[1]).wellFormed THEN "jwt malformed"
    ELSE IF JwtParts(tok.parts[1]).sig # "good" THEN "invalid signature"
    ELSE IF JwtParts(tok.parts[1]).exp # "live" THEN "jwt expired"
    ELSE "ok"

JwtUserId(tok) == JwtParts(tok.parts[1]).userId

\* ------------------------------------------------- generation gateway text

\* The one analysis the gateway produces, as the object JSON.parse returns.
Analysis1 ==
    [emotionalState |-> "anxious", themes |-> <<"anxiety">>, riskLevel |-> 2,
     recommendedApproach |-> "grounding", progressIndicators |-> <<>>]

NullAnalysis ==
    [emotionalState |-> "", themes |-> <<>>, riskLevel |-> 0,
     recommendedApproach |-> "", progressIndicators |-> <<>>]

\* The texts the analysis call may return, each held as its chunks: "J1" is
\* the JSON text of Analysis1, "null" the JSON text null.
AnalysisTexts ==
    { <<"J1">>,
      <<" ", "<fence>json<nl>", "J1", "<nl><fence>", " ">>,
      <<"<fence><nl>", "J1", "<nl><fence>">>,
      <<"sorry">>,
      <<"null">> }

IsSpace(c) == c = " "

\* String.prototype.trim()
RECURSIVE TrimLeft(_)
TrimLeft(s) == IF s # <<>> /\ IsSpace(Head(s)) THEN TrimLeft(Tail(s)) ELSE s

RECURSIVE TrimRight(_)
TrimRight(s) ==
    IF s # <<>> /\ IsSpace(s[Len(s)]) THEN TrimRight(SubSeq(s, 1, Len(s) - 1)) ELSE s

Trim(s) == TrimRight(TrimLeft(s))

\* replace(/<fence>json<nl>|<nl><fence>/g, ""), <fence> being three backticks
\* and <nl> a newline: every opening json fence and every closing fence is
\* removed; an opening fence without "json" is left in place.
StripFences(s) == SelectSeq(s, LAMBDA c : c # "<fence>json<nl>" /\ c # "<nl><fence>")

CleanAnalysisText(text) == Trim(StripFences(Trim(text)))

\* JSON.parse(clean): "object", "null", or "throws".
JsonParseKind(clean) ==
    IF clean = <<"J1">> THEN "object"
    ELSE IF clean = <<"null">> THEN "null"
    ELSE "throws"

JsonParseValue(clean) == IF clean = <<"J1">> THEN Analysis1 ELSE NullAnalysis

\* The SyntaxError's message names the first offending character.
JsonParseError(clean) ==
    IF clean = <<>> THEN "Unexpected end of JSON input"
    ELSE IF Head(clean) = "<fence><nl>" THEN "Unexpected token BACKTICK in JSON at position 0"
    ELSE "Unexpected token s in JSON at position 0"

\* The reply call's text; the handler trims it.
ReplyTexts == { <<"r1", " ">> }

\* ------------------------------------------------------------ documents

\* role "user": no metadata (src chat.ts 157-161).
UserTurn(message, t) == [role |-> "user", content |-> message, timestamp |-> t]

\* role "assistant": the reply, the full analysis and the condensed progress.
AssistantTurn(response, analysis, t) ==
    [role |-> "assistant", content |-> response, timestamp |-> t,
     metadata |-> [analysis |-> analysis,
                   progress |-> [emotionalState |-> analysis.emotionalState,
                                 riskLevel |-> analysis.riskLevel]]]

\* new ChatSession({sessionId, userId, startTime, status: "active", messages: []})
NewChatSession(sessionId, userId, t) ==
    [sessionId |-> sessionId, userId |-> userId, startTime |-> t,
     status |-> "active", messages |-> <<>>]

NullDoc == NewChatSession("", ToObjectId(""), 0)

\* The event sendMessage hands to the relay; the memory, goals and system
\* prompt in it are literals of the handler.
InngestEvent(message, history) ==
    [name |-> "therapy/session.message", message |-> message, history |-> history]

\* ------------------------------------------------------------- requests

Ops == {"create", "send", "getOne", "history", "list"}

\* The routes with a :sessionId parameter, and the one that reads req.body.message.
HasSessionParam(op) == op \in {"send", "getOne", "history"}

IdleReq ==
    [pc |-> "idle", op |-> "", header |-> [present |-> FALSE, parts |-> <<>>],
     sid |-> "", msg |-> "", userId |-> "", user |-> [id |-> ""],
     doc |-> NullDoc, prior |-> <<>>, analysis |-> NullAnalysis, isNull |-> FALSE,
     status |-> 0, body |-> [message |-> ""], kind |-> "", trace |-> <<>>]

\* res.status(status).json(body): the request is over and what it held in
\* memory is dropped.  kind is the failure kind ("ok" for a success) and
\* trace the steps the request attempted, in order; both are kept for the
\* properties only.
Respond(rq, steps, status, body, kind) ==
    [rq EXCEPT !.pc = "done", !.status = status, !.body = body, !.kind = kind,
               !.doc = NullDoc, !.analysis = NullAnalysis, !.isNull = FALSE,
               !.trace = @ \o steps \o <<"respond">>]

InFlight(r) == req[r].pc \notin {"idle", "done"}

\* !req.user || !req.user.id
UserMissing(user) == user.id = ""

Init ==
    /\ store = <<>>
    /\ relayed = {}
    /\ req = [r \in Slots |-> IdleReq]
    /\ started = 0
    /\ okLog = [s \in SessionIds |-> <<>>]
    /\ now = 0

\* ------------------------------------------------------- auth middleware

\* A POST /sessions may arrive only while uuidv4 still has an unused id of
\* SessionIds to hand out.
IdsTaken ==
    DOMAIN store \cup {req[r].doc.sessionId : r \in {q \in Slots : InFlight(q) /\ req[q].op = "create"}}

CreatesPending == Cardinality({r \in Slots : InFlight(r) /\ req[r].op = "create"})

MayArrive(op) ==
    op = "create" => Cardinality(DOMAIN store) + CreatesPending < Cardinality(SessionIds)

\* auth reading the token with jwt.decode in place of jwt.verify: a token
\* that parses passes, whatever its signature and expiry.
AuthVerifyDecodeOnly(rq) ==
    LET token == ExtractToken(rq.header)
    IN  IF TokenFalsy(token)
        THEN Respond(rq, <<"auth">>, 401,
                     [message |-> "Authentication required", error |-> "No token provided"],
                     "AuthenticationRequired")
        ELSE IF JwtVerify(token) = "jwt malformed"
        THEN Respond(rq, <<"auth">>, 401,
                     [message |-> "Invalid authentication token", error |-> "jwt malformed"],
                     "InvalidToken")
        ELSE [rq EXCEPT !.pc = "authFindUser", !.userId = JwtUserId(token),
                        !.trace = @ \o <<"auth">>]

\* auth, up to its await: the header, the token, jwt.verify.
AuthVerify(rq) ==
    LET token == ExtractToken(rq.header)
        verdict == JwtVerify(token)
    IN  IF TokenFalsy(token)
        THEN Respond(rq, <<"auth">>, 401,
                     [message |-> "Authentication required", error |-> "No token provided"],
                     "AuthenticationRequired")
        ELSE IF verdict # "ok"
        THEN Respond(rq, <<"auth">>, 401,
                     [message |-> "Invalid authentication token", error |-> verdict],
                     "InvalidToken")
        ELSE [rq EXCEPT !.pc = "authFindUser", !.userId = JwtUserId(token),
                        !.trace = @ \o <<"auth">>]

\* The lowest free connection: which connection carries a request changes
\* nothing, so a new request always takes this one.
FreeSlot(r) ==
    /\ ~InFlight(r)
    /\ \A q \in Slots : q < r => InFlight(q)

\* A request arrives and runs auth up to User.findById.  Time is counted in
\* arrivals: two requests in flight together may read the same time, a
\* request that arrives later reads a later one.  Nothing before
\* next() reads the route, the :sessionId or the body; they are drawn where
\* the router and the handler first read them.
Auth(r) ==
    /\ FreeSlot(r)
    /\ started < MaxRequests
    /\ \E h \in Headers :
         req' = [req EXCEPT ![r] = AuthVerify([IdleReq EXCEPT !.header = h])]
    /\ started' = started + 1
    /\ now' = now + 1
    /\ UNCHANGED <<store, relayed, okLog>>

\* The code of each route's handler from its entry to its first await.
HandlerEntry(rq) ==
    IF rq.op = "getOne"
    THEN [rq EXCEPT !.pc = "getOneFind"]
    ELSE IF UserMissing(rq.user)
    THEN Respond(rq, <<"caller">>, 401,
                 IF rq.op = "list"
                 THEN [error |-> "User not authenticated", message |-> "User ID not found in request"]
                 ELSE [message |-> "Unauthorized - User not authenticated"],
                 "Unauthenticated")
    ELSE [rq EXCEPT !.pc = CASE rq.op = "create"  -> "createFindUser"
                            [] rq.op = "send"    -> "sendFindOne"
                            [] rq.op = "history" -> "histFind"
                            [] OTHER             -> "listFind",
                    !.trace = @ \o <<"caller">>]

\* router.use(auth) and then the routes: the route is matched, and its
\* handler entered, only from auth's next().
Route(rq, op, sid, m) == HandlerEntry([rq EXCEPT !.op = op, !.sid = sid, !.msg = m])

\* The User collection belongs to the registration subsystem, which may
\* remove an account at any time: what User.findById answers is drawn anew
\* at each call, the account ("ok"), null, or an error thrown.
FindByIdOutcomes == {"ok", "null"} \cup ErrMsgs

\* auth answering 404 when the token's account is gone.
AuthNextNotFound404(rq, out, op, sid, m) ==
    IF out \in ErrMsgs
    THEN Respond(rq, <<"findUser">>, 401,
                 [message |-> "Authentication failed", error |-> out],
                 "AuthenticationFailed")
    ELSE IF out = "null"
    THEN Respond(rq, <<"findUser">>, 404,
                 [message |-> "User not found", error |-> "User account no longer exists"],
                 "AccountNotFound")
    ELSE Route([rq EXCEPT !.user = [id |-> OidToString(ToObjectId(rq.userId))],
                          !.trace = rq.trace \o <<"findUser">>], op, sid, m)

\* User.findById answers: auth's catch, its 401 for a missing account, or
\* req.user is set and next() enters the route's handler.
AuthNext(rq, out, op, sid, m) ==
    IF out \in ErrMsgs
    THEN Respond(rq, <<"findUser">>, 401,
                 [message |-> "Authentication failed", error |-> out],
                 "AuthenticationFailed")
    ELSE IF out = "null"
    THEN Respond(rq, <<"findUser">>, 401,
                 [message |-> "User not found", error |-> "User account no longer exists"],
                 "AccountNotFound")
    ELSE Route([rq EXCEPT !.user = [id |-> OidToString(ToObjectId(rq.userId))],
                          !.trace = rq.trace \o <<"findUser">>], op, sid, m)

AuthFindUser(r) ==
    /\ req[r].pc = "authFindUser"
    /\ \E out \in FindByIdOutcomes, op \in Ops :
         /\ MayArrive(op)
         /\ \E sid \in (IF HasSessionParam(op) THEN SessionIds ELSE {""}),
               m \in (IF op = "send" THEN Msgs ELSE {""}) :
              req' = [req EXCEPT ![r] = AuthNext(req[r], out, op, sid, m)]
    /\ UNCHANGED <<store, relayed, started, okLog, now>>

\* ------------------------------------------------------------ sendMessage

\* session.userId.toString() !== userId.toString()
NotOwner(doc, userId) == OidToString(doc.userId) # OidToString(userId)

ServerError(rq, steps, message, err, kind) ==
    Respond(rq, steps, 500, [message |-> message, error |-> err], kind)

\* ChatSession.findOne({sessionId}): a copy of the stored document.
FindOne(sid) == store[sid]

\* ChatSession.findOne answers: 404, 403, or the event is built and sent.
SendFindOne(r) ==
    /\ req[r].pc = "sendFindOne"
    /\ \E out \in {"ok"} \cup ErrMsgs :
         LET rq == req[r]
             userId == ToObjectId(rq.user.id)
         IN  req' = [req EXCEPT ![r] =
                   IF out # "ok"
                   THEN ServerError(rq, <<"load">>, "Error processing message", out,
                                    "StoreReadFailed")
                   ELSE IF rq.sid \notin DOMAIN store
                   THEN Respond(rq, <<"load">>, 404, [message |-> "Session not found"],
                                "SessionNotFound")
                   ELSE IF NotOwner(FindOne(rq.sid), userId)
                   THEN Respond(rq, <<"load", "owner">>, 403, [message |-> "Unauthorized"],
                                "Forbidden")
                   ELSE [rq EXCEPT !.pc = "sendRelay", !.doc = FindOne(rq.sid),
                                   !.prior = FindOne(rq.sid).messages,
                                   !.trace = rq.trace \o <<"load", "owner">>]]
    /\ UNCHANGED <<store, relayed, started, okLog, now>>

\* inngest.send(event) left unawaited: its failure is not seen and the
\* handler goes on to the analysis call.
SendRelayDetached(r) ==
    /\ req[r].pc = "sendRelay"
    /\ \E out \in {"ok"} \cup ErrMsgs :
         LET rq == req[r]
         IN  /\ req' = [req EXCEPT ![r] =
                   [rq EXCEPT !.pc = "sendAnalysis", !.trace = rq.trace \o <<"relay">>]]
             /\ relayed' = IF out # "ok" THEN relayed
                           ELSE relayed \cup {InngestEvent(rq.msg, rq.doc.messages)}
    /\ UNCHANGED <<store, started, okLog, now>>

\* inngest.send(event) answers: thrown into the catch, or the analysis call is made.
SendRelay(r) ==
    /\ req[r].pc = "sendRelay"
    /\ \E out \in {"ok"} \cup ErrMsgs :
         LET rq == req[r]
         IN  IF out # "ok"
             THEN /\ req' = [req EXCEPT ![r] =
                       ServerError(rq, <<"relay">>, "Error processing message", out,
                                   "RelayUnavailable")]
                  /\ UNCHANGED relayed
             ELSE /\ req' = [req EXCEPT ![r] =
                       [rq EXCEPT !.pc = "sendAnalysis", !.trace = rq.trace \o <<"relay">>]]
                  /\ relayed' = relayed \cup {InngestEvent(rq.msg, rq.doc.messages)}
    /\ UNCHANGED <<store, started, okLog, now>>

\* The analysis call answers: its text is cleaned and parsed, and the reply
\* call is made; a throw of the call or of JSON.parse goes to the catch.
SendAnalysis(r) ==
    /\ req[r].pc = "sendAnalysis"
    /\ \E out \in ErrMsgs \cup {"ok"}, text \in AnalysisTexts :
         LET rq == req[r]
             clean == CleanAnalysisText(text)
         IN  req' = [req EXCEPT ![r] =
                   IF out # "ok"
                   THEN ServerError(rq, <<"analysis">>, "Error processing message", out,
                                    "GenerationUnavailable")
                   ELSE IF JsonParseKind(clean) = "throws"
                   THEN ServerError(rq, <<"analysis">>, "Error processing message",
                                    JsonParseError(clean), "GenerationMalformed")
                   ELSE [rq EXCEPT !.pc = "sendReply",
                                   !.analysis = JsonParseValue(clean),
                                   !.isNull = (JsonParseKind(clean) = "null"),
                                   !.trace = rq.trace \o <<"analysis">>]]
    /\ UNCHANGED <<store, relayed, started, okLog, now>>

\* sendMessage saving the user turn as soon as it is pushed, before the
\* assistant turn is built.
SendReplySavesUserTurn(r) ==
    /\ req[r].pc = "sendReply"
    /\ \E out \in ErrMsgs \cup {"ok"}, text \in ReplyTexts :
         LET rq == req[r]
             response == Trim(text)
             one == Append(rq.doc.messages, UserTurn(rq.msg, now))
             two == Append(one, AssistantTurn(response, rq.analysis, now))
         IN  IF out # "ok"
             THEN /\ req' = [req EXCEPT ![r] =
                       ServerError(rq, <<"reply">>, "Error processing message", out,
                                   "GenerationUnavailable")]
                  /\ UNCHANGED store
             ELSE /\ store' = [store EXCEPT ![rq.doc.sessionId].messages = one]
                  /\ req' = [req EXCEPT ![r] =
                       IF rq.isNull
                       THEN ServerError([rq EXCEPT !.doc.messages = one], <<"reply", "append">>,
                                "Error processing message",
                                "Cannot read properties of null (reading 'emotionalState')",
                                "GenerationMalformed")
                       ELSE [rq EXCEPT !.pc = "sendSave", !.doc.messages = two,
                                       !.trace = rq.trace \o <<"reply", "append">>]]
    /\ UNCHANGED <<relayed, started, okLog, now>>

\* The reply call answers: both turns are pushed onto the loaded document
\* and save is called.  Reading analysis.emotionalState of a null analysis
\* throws after the first push; the document it was pushed on is dropped.
SendReply(r) ==
    /\ req[r].pc = "sendReply"
    /\ \E out \in ErrMsgs \cup {"ok"}, text \in ReplyTexts :
         LET rq == req[r]
             response == Trim(text)
             one == Append(rq.doc.messages, UserTurn(rq.msg, now))
             two == Append(one, AssistantTurn(response, rq.analysis, now))
         IN  req' = [req EXCEPT ![r] =
                   IF out # "ok"
                   THEN ServerError(rq, <<"reply">>, "Error processing message", out,
                                    "GenerationUnavailable")
                   ELSE IF rq.isNull
                   THEN ServerError([rq EXCEPT !.doc.messages = one], <<"reply", "append">>,
                                    "Error processing message",
                                    "Cannot read properties of null (reading 'emotionalState')",
                                    "GenerationMalformed")
                   ELSE [rq EXCEPT !.pc = "sendSave", !.doc.messages = two,
                                   !.trace = rq.trace \o <<"reply", "append">>]]
    /\ UNCHANGED <<store, relayed, started, okLog, now>>

\* session.save(): the collection after the write.  The document written
\* is the whole in-memory document, so the last writer wins.
Saved(st, doc) ==
    [s \in DOMAIN st \cup {doc.sessionId} |-> IF s = doc.sessionId THEN doc ELSE st[s]]

\* res.json of sendMessage
SendBody(response, analysis) ==
    [response |-> response, message |-> response, analysis |-> analysis,
     metadata |-> [progress |-> [emotionalState |-> analysis.emotionalState,
                                 riskLevel |-> analysis.riskLevel]]]

\* sendMessage with the save's failure swallowed: the 200 is sent either way.
SendSaveSwallowed(r) ==
    /\ req[r].pc = "sendSave"
    /\ \E out \in {"ok"} \cup ErrMsgs :
         LET rq == req[r]
             response == rq.doc.messages[Len(rq.doc.messages)].content
         IN  /\ store' = IF out # "ok" THEN store ELSE Saved(store, rq.doc)
             /\ req' = [req EXCEPT ![r] =
                   Respond(rq, <<"save">>, 200, SendBody(response, rq.analysis), "ok")]
             /\ okLog' = [okLog EXCEPT ![rq.sid] = Append(@, <<rq.msg, response>>)]
    /\ UNCHANGED <<relayed, started, now>>

\* sendMessage writing only the two pushed turns, onto whatever is stored
\* by then.
SendSaveAppending(r) ==
    /\ req[r].pc = "sendSave"
    /\ \E out \in {"ok"} \cup ErrMsgs :
         LET rq == req[r]
             response == rq.doc.messages[Len(rq.doc.messages)].content
             pushed == SubSeq(rq.doc.messages, Len(rq.prior) + 1, Len(rq.doc.messages))
         IN  IF out # "ok"
             THEN /\ req' = [req EXCEPT ![r] =
                       ServerError(rq, <<"save">>, "Error processing message", out,
                                   "PersistenceFailed")]
                  /\ UNCHANGED <<store, okLog>>
             ELSE /\ store' = [store EXCEPT ![rq.doc.sessionId].messages = @ \o pushed]
                  /\ req' = [req EXCEPT ![r] =
                       Respond(rq, <<"save">>, 200, SendBody(response, rq.analysis), "ok")]
                  /\ okLog' = [okLog EXCEPT ![rq.sid] = Append(@, <<rq.msg, response>>)]
    /\ UNCHANGED <<relayed, started, now>>

\* session.save() answers: thrown into the catch, or the 200 is sent.
SendSave(r) ==
    /\ req[r].pc = "sendSave"
    /\ \E out \in {"ok"} \cup ErrMsgs :
         LET rq == req[r]
             response == rq.doc.messages[Len(rq.doc.messages)].content
         IN  IF out # "ok"
             THEN /\ req' = [req EXCEPT ![r] =
                       ServerError(rq, <<"save">>, "Error processing message", out,
                                   "PersistenceFailed")]
                  /\ UNCHANGED <<store, okLog>>
             ELSE /\ store' = Saved(store, rq.doc)
                  /\ req' = [req EXCEPT ![r] =
                       Respond(rq, <<"save">>, 200, SendBody(response, rq.analysis), "ok")]
                  /\ okLog' = [okLog EXCEPT ![rq.sid] = Append(@, <<rq.msg, response>>)]
    /\ UNCHANGED <<relayed, started, now>>

\* ------------------------------------------------------ createChatSession

\* User.findById answers in createChatSession: 404, or the session is built
\* under a fresh uuid and save is called.
CreateFindUser(r) ==
    /\ req[r].pc = "createFindUser"
    /\ \E out \in FindByIdOutcomes, sessionId \in SessionIds \ IdsTaken :
         LET rq == req[r]
             userId == ToObjectId(rq.user.id)
         IN  req' = [req EXCEPT ![r] =
                   IF out \in ErrMsgs
                   THEN ServerError(rq, <<"findUser">>, "Error creating chat session", out,
                                    "StoreReadFailed")
                   ELSE IF out = "null"
                   THEN Respond(rq, <<"findUser">>, 404, [message |-> "User not found"],
                                "AccountNotFound")
                   ELSE [rq EXCEPT !.pc = "createSave",
                                   !.doc = NewChatSession(sessionId, userId, now),
                                   !.trace = rq.trace \o <<"findUser">>]]
    /\ UNCHANGED <<store, relayed, started, okLog, now>>

\* session.save() answers in createChatSession.
CreateSave(r) ==
    /\ req[r].pc = "createSave"
    /\ \E out \in {"ok"} \cup ErrMsgs :
         LET rq == req[r]
         IN  IF out # "ok"
             THEN /\ req' = [req EXCEPT ![r] =
                       ServerError(rq, <<"save">>, "Error creating chat session", out,
                                   "PersistenceFailed")]
                  /\ UNCHANGED store
             ELSE /\ store' = Saved(store, rq.doc)
                  /\ req' = [req EXCEPT ![r] =
                       Respond(rq, <<"save">>, 201,
                               [message |-> "Chat session created successfully",
                                sessionId |-> rq.doc.sessionId], "ok")]
    /\ UNCHANGED <<relayed, started, okLog, now>>

\* ---------------------------------------------------------- the readers

\* getChatSession: the whole document of any session that exists.
GetOneFind(r) ==
    /\ req[r].pc = "getOneFind"
    /\ \E out \in {"ok"} \cup ErrMsgs :
         LET rq == req[r]
         IN  req' = [req EXCEPT ![r] =
                   IF out # "ok"
                   THEN Respond(rq, <<"load">>, 500, [error |-> "Failed to get chat session"],
                                "StoreReadFailed")
                   ELSE IF rq.sid \notin DOMAIN store
                   THEN Respond(rq, <<"load">>, 404, [error |-> "Chat session not found"],
                                "SessionNotFound")
                   ELSE Respond([rq EXCEPT !.doc = FindOne(rq.sid)], <<"load">>, 200,
                                FindOne(rq.sid), "ok")]
    /\ UNCHANGED <<store, relayed, started, okLog, now>>

\* getChatHistory: the turn list, to the owner only.
HistFind(r) ==
    /\ req[r].pc = "histFind"
    /\ \E out \in {"ok"} \cup ErrMsgs :
         LET rq == req[r]
             userId == ToObjectId(rq.user.id)
         IN  req' = [req EXCEPT ![r] =
                   IF out # "ok"
                   THEN Respond(rq, <<"load">>, 500, [message |-> "Error fetching chat history"],
                                "StoreReadFailed")
                   ELSE IF rq.sid \notin DOMAIN store
                   THEN Respond(rq, <<"load">>, 404, [message |-> "Session not found"],
                                "SessionNotFound")
                   ELSE IF NotOwner(FindOne(rq.sid), userId)
                   THEN Respond(rq, <<"load", "owner">>, 403, [message |-> "Unauthorized"],
                                "Forbidden")
                   ELSE Respond([rq EXCEPT !.doc = FindOne(rq.sid)], <<"load", "owner">>, 200,
                                FindOne(rq.sid).messages, "ok")]
    /\ UNCHANGED <<store, relayed, started, okLog, now>>

\* ChatSession.find({userId}): the filter's string is cast to an ObjectId.
FindByUser(id) == {s \in DOMAIN store : store[s].userId = ToObjectId(id)}

\* The sort written with startTime: 1: oldest first.
SortedByStartAsc(found) ==
    {q \in [1..Cardinality(found) -> found] :
        /\ \A i, j \in DOMAIN q : i # j => q[i] # q[j]
        /\ \A i, j \in DOMAIN q : i < j => store[q[i]].startTime <= store[q[j]].startTime}

\* .sort({startTime: -1}): any order of the found sessions in which
\* startTime never increases.
SortedByStartDesc(found) ==
    {q \in [1..Cardinality(found) -> found] :
        /\ \A i, j \in DOMAIN q : i # j => q[i] # q[j]
        /\ \A i, j \in DOMAIN q : i < j => store[q[i]].startTime >= store[q[j]].startTime}

\* One entry of formattedSessions.
FormatSession(session) ==
    [sessionId |-> session.sessionId,
     createdAt |-> session.startTime,
     updatedAt |-> IF Len(session.messages) > 0
                   THEN session.messages[Len(session.messages)].timestamp
                   ELSE session.startTime,
     messages |-> session.messages,
     status |-> session.status]

\* getAllUserSessions: the caller's sessions, newest first.
ListFind(r) ==
    /\ req[r].pc = "listFind"
    /\ \E out \in {"ok"} \cup ErrMsgs :
         LET rq == req[r]
         IN  \E q \in SortedByStartDesc(FindByUser(rq.user.id)) :
               req' = [req EXCEPT ![r] =
                   IF out # "ok"
                   THEN Respond(rq, <<"load">>, 500,
                                [error |-> "Failed to fetch chat sessions", message |-> out],
                                "StoreReadFailed")
                   ELSE Respond(rq, <<"load">>, 200,
                                [i \in DOMAIN q |-> FormatSession(store[q[i]])], "ok")]
    /\ UNCHANGED <<store, relayed, started, okLog, now>>

Next ==
    \/ \E r \in Slots : Auth(r)
    \/ \E r \in Slots : AuthFindUser(r)
    \/ \E r \in Slots : SendFindOne(r)
    \/ \E r \in Slots : SendRelay(r)
    \/ \E r \in Slots : SendAnalysis(r)
    \/ \E r \in Slots : SendReply(r)
    \/ \E r \in Slots : SendSave(r)
    \/ \E r \in Slots : CreateFindUser(r)
    \/ \E r \in Slots : CreateSave(r)
    \/ \E r \in Slots : GetOneFind(r)
    \/ \E r \in Slots : HistFind(r)
    \/ \E r \in Slots : ListFind(r)

Spec == Init /\ [][Next]_vars

\* ------------------------------------------------------------ properties

Done(r) == req[r].pc = "done"

IsPrefix(a, b) == Len(a) <= Len(b) /\ SubSeq(b, 1, Len(a)) = a

\* The owner of a stored session, as the hex string of its userId.
OwnerOf(sid) == OidToString(store[sid].userId)

\* C1: after N sendMessage calls on a session have returned 200, the stored
\* turn sequence of the session has exactly 2N entries, user and assistant
\* alternating, the k-th pair holding the message and the reply of the k-th
\* such call.
C1_TwoTurnsPerSuccess ==
    \A s \in DOMAIN store :
        LET m == store[s].messages
            log == okLog[s]
        IN  /\ Len(m) = 2 * Len(log)
            /\ \A k \in 1..Len(log) :
                 /\ m[2 * k - 1].role = "user"
                 /\ m[2 * k - 1].content = log[k][1]
                 /\ m[2 * k].role = "assistant"
                 /\ m[2 * k].content = log[k][2]

\* The lookup of a request with a :sessionId found the session.
FoundSession(rq) ==
    /\ rq.op \in {"send", "getOne", "history"}
    /\ "load" \in {rq.trace[i] : i \in DOMAIN rq.trace}
    /\ rq.kind \notin {"StoreReadFailed", "SessionNotFound"}

\* C2: an authenticated caller who is not the owner of the session gets 403
\* and none of the session's data from every session-scoped operation: post
\* message, get one session, get the turn list; and the session list holds
\* no session of another account.
C2_NonOwnerForbidden ==
    \A r \in Slots :
        LET rq == req[r]
        IN  Done(r) =>
              /\ (FoundSession(rq) /\ OwnerOf(rq.sid) # rq.user.id) =>
                    (rq.status = 403 /\ rq.body = [message |-> "Unauthorized"])
              /\ (rq.op = "list" /\ rq.status = 200) =>
                    \A i \in DOMAIN rq.body : OwnerOf(rq.body[i].sessionId) = rq.user.id

\* A header that carries no token, or one that is malformed, expired or
\* wrongly signed.
BadCredential(h) ==
    \/ ~h.present
    \/ h.parts = <<"Bearer ">>
    \/ \E t \in {"garbage", "tok_u1_expired", "tok_u1_badsig"} : h.parts = <<"Bearer ", t>>

\* C3: a request whose credential is missing, expired or malformed is
\* answered 401 by auth alone: no route is matched, no handler step runs and
\* no session is looked up, and the answer depends on the header only, not
\* on which sessions exist.
C3_BadCredentialStopsAtAuth ==
    /\ \A r \in Slots :
         (req[r].pc # "idle" /\ BadCredential(req[r].header)) =>
            /\ Done(r)
            /\ req[r].status = 401
            /\ req[r].trace = <<"auth", "respond">>
            /\ req[r].op = ""
    /\ \A r1, r2 \in Slots :
         (Done(r1) /\ Done(r2) /\ BadCredential(req[r1].header)
            /\ req[r1].header = req[r2].header) => req[r1].body = req[r2].body

\* C3 witness: a request without a usable credential has been answered
\* while a session exists.
C3_Witness ==
    \E r \in Slots :
        /\ Done(r)
        /\ BadCredential(req[r].header)
        /\ req[r].status = 401
        /\ DOMAIN store # {}

\* The step in which request r is answered.
Answered(r) == req[r].pc # "done" /\ req'[r].pc = "done"

\* C4: a sendMessage call that ends with an error has written nothing: every
\* step of the call, but the one that answers 200, leaves the stored
\* sessions as they are.
C4_ErrorLeavesTurnsUnchanged ==
    [][\A r \in Slots :
         (req'[r] # req[r] /\ req'[r].op = "send"
            /\ ~(Answered(r) /\ req'[r].status = 200)) => store' = store]_vars

\* C4 witness: a sendMessage call on a session of two turns has failed on
\* the analysis text, and the session still holds the two turns it loaded.
C4_Witness ==
    \E r \in Slots :
        /\ Done(r)
        /\ req[r].op = "send"
        /\ req[r].kind = "GenerationMalformed"
        /\ Len(req[r].prior) = 2
        /\ store[req[r].sid].messages = req[r].prior

\* The status the taxonomy of the specification gives a failure kind.
TaxonomyStatus(kind) ==
    CASE kind \in {"AuthenticationRequired", "InvalidToken", "Unauthenticated"} -> 401
      [] kind = "Forbidden" -> 403
      [] kind \in {"SessionNotFound", "AccountNotFound"} -> 404
      [] OTHER -> 500

TaxonomyKinds ==
    {"AuthenticationRequired", "InvalidToken", "Unauthenticated", "Forbidden",
     "SessionNotFound", "AccountNotFound", "GenerationMalformed",
     "GenerationUnavailable", "RelayUnavailable", "PersistenceFailed"}

\* C5 as stated: every failure is answered with the status of its kind in
\* the taxonomy, a missing account with 404.
C5_TaxonomyStatus ==
    \A r \in Slots :
        (Done(r) /\ req[r].kind \in TaxonomyKinds) =>
            req[r].status = TaxonomyStatus(req[r].kind)

\* C5 amended: a missing or invalid credential is answered 401, and so is a
\* valid token whose account auth does not find, or whose lookup fails; the
\* account missing in createChatSession's own lookup 404; a wrong owner 403;
\* a session not found 404; a malformed analysis, a gateway, relay or store
\* failure 500; and nothing else is answered with an error status.
C5_StatusByFailureKind ==
    \A r \in Slots :
        LET rq == req[r]
        IN  Done(r) =>
              /\ BadCredential(rq.header) => rq.status = 401
              /\ rq.kind \in {"AuthenticationRequired", "InvalidToken", "Unauthenticated",
                              "AuthenticationFailed"} => rq.status = 401
              /\ rq.kind = "AccountNotFound" =>
                    rq.status = (IF rq.op = "create" THEN 404 ELSE 401)
              /\ rq.kind = "Forbidden" => rq.status = 403
              /\ rq.kind = "SessionNotFound" => rq.status = 404
              /\ rq.kind \in {"GenerationMalformed", "GenerationUnavailable",
                              "RelayUnavailable", "PersistenceFailed", "StoreReadFailed"}
                    => rq.status = 500
              /\ rq.kind = "ok" <=> rq.status \in {200, 201}

\* C5 witness: auth has answered a valid token whose account is gone.
C5_Witness ==
    \E r \in Slots :
        /\ Done(r)
        /\ req[r].kind = "AccountNotFound"
        /\ ~BadCredential(req[r].header)
        /\ req[r].op = ""
        /\ req[r].status = 401

\* C6: two requests that fail with the same failure kind in the same
\* operation get the same response body, whatever the cause underneath.
C6_BodyIndependentOfCause ==
    \A r1, r2 \in Slots :
        (Done(r1) /\ Done(r2) /\ req[r1].kind # "ok"
            /\ req[r1].kind = req[r2].kind /\ req[r1].op = req[r2].op)
        => req[r1].body = req[r2].body

\* The steps of sendMessage in the order of its code.
SendOrder ==
    <<"auth", "findUser", "caller", "load", "owner", "relay", "analysis", "reply",
      "append", "save", "respond">>

Front(q) == SubSeq(q, 1, Len(q) - 1)

\* C7: a sendMessage request attempts its steps in the fixed order caller
\* check, load, ownership check, relay, analysis call, reply call, append,
\* save, respond; the step that fails is the last one before the error
\* response; a relay failure is answered 500 with no gateway call and no
\* append; and a 200 is sent only after every step, with the relay holding
\* the request's event.
C7_StepsInOrder ==
    \A r \in Slots :
        LET rq == req[r]
        IN  rq.op = "send" =>
              /\ \/ IsPrefix(rq.trace, SendOrder)
                 \/ /\ Done(r)
                    /\ rq.status >= 400
                    /\ rq.trace[Len(rq.trace)] = "respond"
                    /\ IsPrefix(Front(rq.trace), Front(Front(SendOrder)))
              /\ (Done(r) /\ rq.status = 200) =>
                    /\ rq.trace = SendOrder
                    /\ InngestEvent(rq.msg, rq.prior) \in relayed
              /\ (Done(r) /\ rq.kind = "RelayUnavailable") =>
                    /\ rq.status = 500
                    /\ rq.trace = SubSeq(SendOrder, 1, 6) \o <<"respond">>

\* C7 witness: the relay has refused the event of a sendMessage request,
\* which was answered 500, and the relay does not hold the event.
C7_Witness ==
    \E r \in Slots :
        /\ Done(r)
        /\ req[r].op = "send"
        /\ req[r].kind = "RelayUnavailable"
        /\ req[r].status = 500
        /\ InngestEvent(req[r].msg, req[r].prior) \notin relayed

\* The stored session that request rq names ends with rq's two turns.
EndsWithTurnsOf(st, rq) ==
    /\ rq.sid \in DOMAIN st
    /\ LET m == st[rq.sid].messages
       IN  /\ Len(m) >= Len(rq.prior) + 2
           /\ m[Len(m) - 1].role = "user"
           /\ m[Len(m) - 1].content = rq.msg
           /\ m[Len(m)].role = "assistant"

\* C8: the 200 of sendMessage is sent in the step in which the save has
\* written the session with both new turns, the user turn holding the
\* message and the assistant turn the reply of the response; when the save
\* has not, the answer is the 500 with its error body, which holds no reply.
C8_SuccessOnlyAfterSave ==
    [][\A r \in Slots :
         LET rq == req'[r]
         IN  (Answered(r) /\ rq.op = "send") =>
               /\ rq.status = 200 =>
                    /\ req[r].pc = "sendSave"
                    /\ EndsWithTurnsOf(store', rq)
                    /\ store'[rq.sid].messages[Len(store'[rq.sid].messages)].content
                          = rq.body.response
               /\ (req[r].pc = "sendSave" /\ ~EndsWithTurnsOf(store', rq)) =>
                    /\ rq.status = 500
                    /\ DOMAIN rq.body = {"message", "error"}
                    /\ rq.body.message = "Error processing message"]_vars

\* C8 witness: the save of a sendMessage request has failed and the request
\* was answered 500.
C8_Witness ==
    \E r \in Slots :
        /\ Done(r)
        /\ req[r].op = "send"
        /\ req[r].kind = "PersistenceFailed"
        /\ req[r].status = 500
        /\ store[req[r].sid].messages = req[r].prior

\* Any step of the request in flight on connection r.
RequestStep(r) ==
    \/ AuthFindUser(r)
    \/ SendFindOne(r) \/ SendRelay(r) \/ SendAnalysis(r) \/ SendReply(r) \/ SendSave(r)
    \/ CreateFindUser(r) \/ CreateSave(r)
    \/ GetOneFind(r) \/ HistFind(r) \/ ListFind(r)

\* Two sendMessage requests on one session that loaded the same turns and
\* were both answered 200.
BothSucceededOnSameLoad(r1, r2) ==
    /\ r1 # r2
    /\ Done(r1) /\ Done(r2)
    /\ req[r1].op = "send" /\ req[r2].op = "send"
    /\ req[r1].sid = req[r2].sid
    /\ req[r1].status = 200 /\ req[r2].status = 200
    /\ req[r1].prior = req[r2].prior

C10_AppendOnly ==
    [][\A s \in DOMAIN store :
         /\ s \in DOMAIN store'
         /\ IsPrefix(store[s].messages, store'[s].messages)
         /\ store'[s].userId = store[s].userId]_vars

\* The time of the last activity of a stored session: the timestamp of its
\* last turn, or its creation time when it has no turn.
LastActivity(sid) ==
    LET m == store[sid].messages
    IN  IF m = <<>> THEN store[sid].startTime ELSE m[Len(m)].timestamp

\* C11: the 200 of the session list holds exactly the stored sessions whose
\* owner is the caller, each once, a session created later never after one
\* created earlier, and the updatedAt of each entry is the timestamp of the
\* session's last turn, or its creation time when it has no turns.
C11_ListIsCallersSessionsNewestFirst ==
    [][\A r \in Slots :
         (Answered(r) /\ req'[r].op = "list" /\ req'[r].status = 200) =>
            LET b == req'[r].body
                mine == {s \in DOMAIN store : OwnerOf(s) = req'[r].user.id}
            IN  /\ {b[i].sessionId : i \in DOMAIN b} = mine
                /\ DOMAIN b = 1..Cardinality(mine)
                /\ \A i, j \in DOMAIN b : i < j => b[i].createdAt >= b[j].createdAt
                /\ \A i \in DOMAIN b :
                     /\ b[i].createdAt = store[b[i].sessionId].startTime
                     /\ b[i].updatedAt = LastActivity(b[i].sessionId)
                     /\ b[i].messages = store[b[i].sessionId].messages]_vars

\* C11 witness: a caller with two sessions created at different times has
\* been sent the list, the later session first.
C11_Witness ==
    \E r \in Slots :
        /\ Done(r)
        /\ req[r].op = "list"
        /\ req[r].status = 200
        /\ DOMAIN req[r].body = {1, 2}
        /\ req[r].body[1].createdAt > req[r].body[2].createdAt

====
